---- MODULE Spec2Model ----
(***************************************************************************)
(* Model of the vero-backend ingestion and retrieval code.                 *)
(*                                                                         *)
(*   loader/pdf_processor.py  PDFProcessor: hash-based deduplicating       *)
(*                            ingestion into the Chroma collections        *)
(*                            "pdf_embeddings" and "pdf_metadata"          *)
(*   loader/db_manager.py     DatabaseManager: the processed_files table   *)
(*   api/main.py, mcp/mcp_server.py                                        *)
(*                            search over the Chroma collection            *)
(*                            "embeddings"                                 *)
(*                                                                         *)
(* Chroma collections are modelled as sequences of records.                *)
(* collection.add of an id that is already present is ignored by Chroma    *)
(* (no overwrite).                                                         *)
(***************************************************************************)
EXTENDS Integers, Sequences, FiniteSets, TLC

\* ------------------------------------------------------------------ bounds
\* number of process_pdf calls explored
MaxCalls == 3
\* largest top_k / n_results a caller passes
MaxTopK == 2
\* largest number of chunks preloaded in the "embeddings" collection
MaxExt == 3
\* latest value of the wall clock
MaxClock == 2

\* ------------------------------------------------------------ value domains
None == "None"
NoFile == "NoFile"

\* a path is its stem and its extension, so that lower()/endswith apply
PathA == [stem |-> "invoice", ext |-> ".pdf"]
PathB == [stem |-> "report", ext |-> ".PDF"]
PathT == [stem |-> "notes", ext |-> ".txt"]
PdfPaths == {PathA, PathB}
Paths == PdfPaths \cup {PathT}

\* file contents
Bytes == {"bytesA", "bytesB"}

\* str.lower() on the extensions in use
Lower(s) ==
  CASE s = ".PDF" -> ".pdf"
    [] s = ".Pdf" -> ".pdf"
    [] s = ".TXT" -> ".txt"
    [] OTHER -> s

\* the extension check left out
IsPdf_any(pdf_path) == TRUE

\* pdf_path.lower().endswith('.pdf')
IsPdf(pdf_path) == Lower(pdf_path.ext) = ".pdf"

\* os.path.basename
basename(file_path) == <<file_path.stem, file_path.ext>>

\* SHA-256 over the bytes of a file: a function of the bytes alone,
\* collision-free on the contents in use
Sha256(b) ==
  CASE b = "bytesA" -> "hA"
    [] b = "bytesB" -> "hB"
    [] OTHER -> "h0"

Hashes == {Sha256(b) : b \in Bytes}

\* SimpleDirectoryReader(...).load_data(): one document per page
load_data(b) ==
  CASE b = "bytesA" -> <<"fi">>
    [] b = "bytesB" -> <<"fi_lig", "fi">>
    [] OTHER -> <<>>

VARIABLES
  fs,              \* the local file system: path -> bytes or NoFile
  pdf_embeddings,  \* Chroma collection "pdf_embeddings" (chunks)
  pdf_metadata,    \* Chroma collection "pdf_metadata" (one record per add)
  calls,           \* number of process_pdf calls made
  last,            \* the most recent process_pdf call and its outcome
  prev,            \* the call before it
  ingested,        \* path -> fingerprint of its latest ingestion that completed
  get_order,       \* the order in which collection.get returns records
  faulted,         \* a collaborator has failed during some process_pdf call
  embeddings,      \* Chroma collection "embeddings" (read by the search API)
  resp,            \* the most recent search call and its response
  processed_files, \* rows of the processed_files table
  clock,           \* datetime.utcnow()
  db_ret,          \* the most recent DatabaseManager call and its result
  written,         \* path -> content hash of its latest mark_file_processed
  ever_hashes,     \* content hashes some mark_file_processed has stored
  drive,           \* the Drive folder: file name -> bytes or NoFile
  pf,              \* the position of process_folder in its loop
  job,             \* path -> the position of a concurrent process_pdf call
  base,            \* the collections when the concurrent calls began
  episode          \* number of rounds of concurrent calls completed

vars == <<fs, pdf_embeddings, pdf_metadata, calls, last, prev, ingested,
          get_order, faulted, embeddings, resp, processed_files, clock, db_ret, written,
          ever_hashes, drive, pf, job, base, episode>>

ingestVars == <<pdf_embeddings, pdf_metadata, calls, last, prev, ingested,
                faulted>>
searchVars == <<embeddings, resp>>
ledgerVars == <<processed_files, clock, db_ret, written, ever_hashes>>
folderVars == <<drive, pf>>
concVars == <<job, base, episode>>

NoCall == [op |-> "none", path |-> None, bytes |-> NoFile, hash |-> None,
           outcome |-> None, fresh |-> FALSE, old |-> None, fail |-> "none"]

\* where a collaborator fails during a call: nowhere, in extract/embed/store,
\* or in the write of the metadata record
Fails == {"none", "embed", "ledger"}

\* ------------------------------------------------------- Chroma collections
\* positions of the records matching a where-filter on one metadata key
RECURSIVE SelectSeq2(_, _, _)
SelectSeq2(s, key, val) ==
  IF s = <<>> THEN <<>>
  ELSE IF Head(s)[key] = val
       THEN <<Head(s)>> \o SelectSeq2(Tail(s), key, val)
       ELSE SelectSeq2(Tail(s), key, val)

\* collection.get(where={key: val})
CollectionGetWhere(coll, key, val) == SelectSeq2(coll, key, val)

\* collection.get(ids=[id])
CollectionGetId(coll, id) == SelectSeq2(coll, "id", id)

\* collection.add(ids=[id], metadatas=[m]): an existing id is left as it is
CollectionAdd(coll, rec) ==
  IF CollectionGetId(coll, rec.id) # <<>> THEN coll ELSE Append(coll, rec)

\* collection.delete(where={key: val})
RECURSIVE CollectionDeleteWhere(_, _, _)
CollectionDeleteWhere(coll, key, val) ==
  IF coll = <<>> THEN <<>>
  ELSE IF Head(coll)[key] = val
       THEN CollectionDeleteWhere(Tail(coll), key, val)
       ELSE <<Head(coll)>> \o CollectionDeleteWhere(Tail(coll), key, val)

\* ------------------------------------------------------------ PDFProcessor
_calculate_file_hash(file_path) == Sha256(fs[file_path])

_get_file_metadata(file_path) ==
  [file_path |-> file_path,
   file_name |-> basename(file_path),
   content_hash |-> _calculate_file_hash(file_path)]

\* Chroma does not fix the order in which get returns the matching records:
\* insertion order, or the order of the ids (of the hex digests, which stand
\* either way round).  A build has one of these orders throughout.
GetOrders == {"insertion", "id_hA_first", "id_hB_first"}

\* position of an id in the id order
IdRank(id) ==
  IF get_order = "id_hA_first"
  THEN (IF id[2] = "hA" THEN 1 ELSE 2)
  ELSE (IF id[2] = "hB" THEN 1 ELSE 2)

\* results[...][0]: the first of the records a get returned
First(results) ==
  IF get_order = "insertion"
  THEN results[1]
  ELSE results[CHOOSE i \in 1 .. Len(results) :
                 \A j \in 1 .. Len(results) :
                   IdRank(results[i].id) <= IdRank(results[j].id)]

\* the lookup by file path never finding a record
_check_duplicate_miss(meta_coll, metadata) == None

\* results["ids"][0] of collection.get(where={"file_path": ...}), or None
_check_duplicate(meta_coll, metadata) ==
  LET results == CollectionGetWhere(meta_coll, "file_path", metadata.file_path)
  IN IF results # <<>> THEN First(results).id ELSE None

\* the record added for a file: its id is derived from the content hash only
MetadataId(metadata) == <<"meta", metadata.content_hash>>

_store_metadata(meta_coll, metadata) ==
  CollectionAdd(meta_coll,
                [id |-> MetadataId(metadata),
                 file_path |-> metadata.file_path,
                 file_name |-> metadata.file_name,
                 content_hash |-> metadata.content_hash])

\* deletes every chunk tagged with the content hash of the record metadata_id
_delete_old_embeddings(emb_coll, meta_coll, metadata_id) ==
  LET results == CollectionGetId(meta_coll, metadata_id)
  IN IF results # <<>>
     THEN CollectionDeleteWhere(emb_coll, "content_hash", results[1].content_hash)
     ELSE emb_coll

\* the nodes VectorStoreIndex.from_documents stores for a file
RECURSIVE Nodes(_, _, _)
Nodes(docs, metadata, page) ==
  IF docs = <<>> THEN <<>>
  ELSE <<[content_hash |-> metadata.content_hash,
          file_path |-> metadata.file_path,
          file_name |-> metadata.file_name,
          page |-> page,
          text |-> Head(docs)]>> \o Nodes(Tail(docs), metadata, page + 1)

\* the collection after the nodes of a file with these bytes were added
StoreNodes(emb_coll, metadata, b) == emb_coll \o Nodes(load_data(b), metadata, 1)

from_documents(emb_coll, metadata) ==
  StoreNodes(emb_coll, metadata, fs[metadata.file_path])

\* number of chunks in a collection tagged with a content hash
ChunksTagged(emb_coll, h) == Len(CollectionGetWhere(emb_coll, "content_hash", h))

\* no metadata record for the path or the hash, and no chunk of the hash
Fresh(file_path, h) ==
  /\ CollectionGetWhere(pdf_metadata, "file_path", file_path) = <<>>
  /\ CollectionGetWhere(pdf_metadata, "content_hash", h) = <<>>
  /\ ChunksTagged(pdf_embeddings, h) = 0

\* lines 119-139: the record found for the path, its hash, and what
\* process_pdf does about it
Decide(meta_coll, metadata) ==
  LET existing_id == _check_duplicate(meta_coll, metadata)
      existing_metadata == IF existing_id = None THEN <<>>
                           ELSE CollectionGetId(meta_coll, existing_id)
      found == existing_id # None /\ existing_metadata # <<>>
      existing_hash == IF found THEN existing_metadata[1].content_hash ELSE None
  IN [existing_id |-> existing_id,
      existing_hash |-> existing_hash,
      action |-> IF found /\ existing_hash = metadata.content_hash THEN "Skipped"
                 ELSE IF found THEN "Replaced"
                 ELSE "Inserted"]

\* the ledger written before the chunks are embedded and stored
Mutate_ledger_first(emb_coll, meta_coll, metadata, b, fail) ==
  IF fail = "ledger"
  THEN [emb |-> emb_coll, meta |-> meta_coll]
  ELSE IF fail = "embed"
  THEN [emb |-> emb_coll, meta |-> _store_metadata(meta_coll, metadata)]
  ELSE [emb |-> StoreNodes(emb_coll, metadata, b),
        meta |-> _store_metadata(meta_coll, metadata)]

\* lines 141-158: load, embed and store the chunks, then store the metadata;
\* a step that raises ends the call there
Mutate(emb_coll, meta_coll, metadata, b, fail) ==
  IF fail = "embed"
  THEN [emb |-> emb_coll, meta |-> meta_coll]
  ELSE IF fail = "ledger"
  THEN [emb |-> StoreNodes(emb_coll, metadata, b), meta |-> meta_coll]
  ELSE [emb |-> StoreNodes(emb_coll, metadata, b),
        meta |-> _store_metadata(meta_coll, metadata)]

\* process_pdf as it acts on the collections; fail names the collaborator
\* step that raises during this call, if any
ProcessPdf(pdf_path, fail) ==
  /\ calls' = calls + 1
  /\ prev' = last
  /\ faulted' = (faulted \/ fail # "none")
  /\ IF fs[pdf_path] = NoFile
     THEN /\ fail = "none"
          /\ last' = [NoCall EXCEPT !.op = "process_pdf", !.path = pdf_path,
                                    !.outcome = "FileNotFoundError"]
          /\ UNCHANGED <<pdf_embeddings, pdf_metadata, ingested>>
     ELSE IF ~IsPdf(pdf_path)
     THEN /\ fail = "none"
          /\ last' = [NoCall EXCEPT !.op = "process_pdf", !.path = pdf_path,
                                    !.bytes = fs[pdf_path],
                                    !.outcome = "ValueError"]
          /\ UNCHANGED <<pdf_embeddings, pdf_metadata, ingested>>
     ELSE
       LET metadata == _get_file_metadata(pdf_path)
           d == Decide(pdf_metadata, metadata)
           call == [op |-> "process_pdf", path |-> pdf_path,
                    bytes |-> fs[pdf_path],
                    hash |-> metadata.content_hash, outcome |-> None,
                    fresh |-> Fresh(pdf_path, metadata.content_hash),
                    old |-> d.existing_hash, fail |-> fail]
       IN IF d.action = "Skipped"
          THEN /\ fail = "none"
               /\ last' = [call EXCEPT !.outcome = "Skipped"]
               /\ UNCHANGED <<pdf_embeddings, pdf_metadata, ingested>>
          ELSE LET kept == IF d.action = "Replaced"
                           THEN _delete_old_embeddings(pdf_embeddings,
                                                       pdf_metadata,
                                                       d.existing_id)
                           ELSE pdf_embeddings
                   m == Mutate(kept, pdf_metadata, metadata, fs[pdf_path], fail)
               IN /\ pdf_embeddings' = m.emb
                  /\ pdf_metadata' = m.meta
                  /\ ingested' = IF fail = "none"
                                 THEN [ingested EXCEPT ![pdf_path] =
                                         metadata.content_hash]
                                 ELSE ingested
                  /\ last' = [call EXCEPT !.outcome =
                                IF fail = "embed" THEN "EmbedError"
                                ELSE IF fail = "ledger" THEN "LedgerError"
                                ELSE d.action]

process_pdf(pdf_path, fail) ==
  /\ calls < MaxCalls
  /\ ProcessPdf(pdf_path, fail)
  /\ UNCHANGED <<fs, get_order, folderVars, concVars, searchVars, ledgerVars>>

\* ----------------------------------------------------------- environment
\* a file is written (a download, an edit) or removed
WriteFile(path, b) ==
  /\ fs[path] # b
  /\ fs' = [fs EXCEPT ![path] = b]
  /\ UNCHANGED <<ingestVars, get_order, folderVars, concVars, searchVars, ledgerVars>>

RemoveFile(path) ==
  /\ fs[path] # NoFile
  /\ fs' = [fs EXCEPT ![path] = NoFile]
  /\ UNCHANGED <<ingestVars, get_order, folderVars, concVars, searchVars, ledgerVars>>

\* --------------------------------------------------------------- retrieval
Queries == {"fi", "fi_lig"}
TopKs == -1 .. MaxTopK

\* unicodedata.normalize('NFKC', text): the ligature is decomposed
NFKC(text) == IF text = "fi_lig" THEN "fi" ELSE text

\* similarity of a chunk to a query, as the vector store scores it
Score(query, node) ==
  (IF NFKC(node.text) = NFKC(query) THEN 2 ELSE 0)
  + (IF node.text = query THEN 1 ELSE 0)

\* position of the first chunk with the highest score
Best(coll, query) ==
  CHOOSE i \in 1 .. Len(coll) :
    /\ \A j \in 1 .. Len(coll) : Score(query, coll[j]) <= Score(query, coll[i])
    /\ \A j \in 1 .. (i - 1) : Score(query, coll[j]) < Score(query, coll[i])

RemoveAt(s, i) == SubSeq(s, 1, i - 1) \o SubSeq(s, i + 1, Len(s))

\* the k nearest chunks, best first
RECURSIVE Nearest(_, _, _)
Nearest(coll, query, k) ==
  IF k <= 0 \/ coll = <<>> THEN <<>>
  ELSE LET i == Best(coll, query)
       IN <<coll[i]>> \o Nearest(RemoveAt(coll, i), query, k - 1)

\* retriever.retrieve: Chroma rejects n_results <= 0; the collaborator may fail
retrieve(coll, query, similarity_top_k, fail) ==
  IF fail \/ similarity_top_k <= 0
  THEN [raised |-> TRUE, nodes |-> <<>>]
  ELSE [raised |-> FALSE, nodes |-> Nearest(coll, query, similarity_top_k)]

\* node.metadata.get(key, 'Unknown')
MetadataGet(node, key) == IF key \in DOMAIN node THEN node[key] ELSE "Unknown"

NoResp == [op |-> "none", query |-> None, top_k |-> 0, status |-> None,
           results |-> <<>>, issued |-> FALSE, failed |-> FALSE]

\* the except clause answering with an empty result list
internal_search_swallow(query, top_k, fail) ==
  LET r == retrieve(embeddings, query, top_k, fail)
      results == [i \in 1 .. Len(r.nodes) |->
                    [text |-> NFKC(r.nodes[i].text),
                     source |-> MetadataGet(r.nodes[i], "source"),
                     file_name |-> MetadataGet(r.nodes[i], "file_name")]]
  IN /\ resp' = [op |-> "internal_search", query |-> query, top_k |-> top_k,
                 status |-> "HTTP200",
                 results |-> IF r.raised THEN <<>> ELSE results,
                 issued |-> TRUE, failed |-> fail]
     /\ UNCHANGED <<fs, ingestVars, get_order, folderVars, concVars, embeddings, ledgerVars>>

\* POST /internal_search
internal_search(query, top_k, fail) ==
  LET r == retrieve(embeddings, query, top_k, fail)
      results == [i \in 1 .. Len(r.nodes) |->
                    [text |-> NFKC(r.nodes[i].text),
                     source |-> MetadataGet(r.nodes[i], "source"),
                     file_name |-> MetadataGet(r.nodes[i], "file_name")]]
  IN /\ resp' = [op |-> "internal_search", query |-> query, top_k |-> top_k,
                 status |-> IF r.raised THEN "HTTP500" ELSE "HTTP200",
                 results |-> IF r.raised THEN <<>> ELSE results,
                 issued |-> TRUE, failed |-> fail]
     /\ UNCHANGED <<fs, ingestVars, get_order, folderVars, concVars, embeddings, ledgerVars>>

\* the MCP tool search_documents
search_documents(query, n_results, fail) ==
  LET r == retrieve(embeddings, query, n_results, fail)
      chunk_texts == [i \in 1 .. Len(r.nodes) |-> NFKC(r.nodes[i].text)]
  IN /\ resp' = [op |-> "search_documents", query |-> query, top_k |-> n_results,
                 status |-> IF r.raised THEN "error" ELSE "ok",
                 results |-> IF r.raised THEN <<>> ELSE chunk_texts,
                 issued |-> TRUE, failed |-> fail]
     /\ UNCHANGED <<fs, ingestVars, get_order, folderVars, concVars, embeddings, ledgerVars>>

\* index.as_query_engine() without similarity_top_k uses the library default
DEFAULT_SIMILARITY_TOP_K == 2

\* top_k as the query engine of get_similar_chunks uses it
QueryEngineTopK(top_k) == DEFAULT_SIMILARITY_TOP_K

\* PDFProcessor.get_similar_chunks
get_similar_chunks(query, top_k, fail) ==
  LET r == retrieve(pdf_embeddings, query, QueryEngineTopK(top_k), fail)
  IN /\ resp' = [op |-> "get_similar_chunks", query |-> query, top_k |-> top_k,
                 status |-> IF r.raised THEN "raised" ELSE "ok",
                 results |-> r.nodes,
                 issued |-> TRUE, failed |-> fail]
     /\ UNCHANGED <<fs, ingestVars, get_order, folderVars, concVars, embeddings, ledgerVars>>

\* chunks some other writer left in the "embeddings" collection
ExtSeed ==
  <<[file_name |-> <<"a", ".pdf">>, text |-> "fi"],
    [file_name |-> <<"b", ".pdf">>, text |-> "fi_lig"],
    [file_name |-> <<"c", ".pdf">>, text |-> "other"],
    [file_name |-> <<"d", ".pdf">>, text |-> "fi"],
    [file_name |-> <<"e", ".pdf">>, text |-> "fi_lig"]>>

\* --------------------------------------------------------- DatabaseManager
LedgerPaths == PdfPaths
Folders == {"finance", "legal"}

NoDbRet == [op |-> "none", file_path |-> None, folder_id |-> None,
            content_hash |-> None, outcome |-> None, result |-> None,
            existed |-> FALSE, repeat |-> FALSE]

\* session.query(ProcessedFile).filter_by(file_path=...) / (content_hash=...)
RowsByPath(rows, file_path) == {r \in rows : r.file_path = file_path}
RowsByHash(rows, content_hash) == {r \in rows : r.content_hash = content_hash}

is_file_processed_result(rows, content_hash) == RowsByHash(rows, content_hash) # {}

is_file_processed(content_hash) ==
  /\ db_ret' = [NoDbRet EXCEPT !.op = "is_file_processed",
                               !.content_hash = content_hash,
                               !.outcome = "ok",
                               !.result = is_file_processed_result(processed_files,
                                                                   content_hash)]
  /\ UNCHANGED <<fs, ingestVars, get_order, folderVars, concVars, searchVars, processed_files, clock,
                 written, ever_hashes>>

\* the update branch left out: a row is always added
Upsert_add(rows, file_path, folder_id, content_hash, now) ==
  rows \cup {[file_path |-> file_path,
              folder_id |-> folder_id,
              content_hash |-> content_hash,
              processed_at |-> now,
              is_processed |-> TRUE]}

\* the update branch not assigning folder_id
Upsert_keep_folder(rows, file_path, folder_id, content_hash, now) ==
  LET existing == {r \in rows : r.file_path = file_path}
  IN IF existing # {}
     THEN LET existing_file == CHOOSE r \in existing : TRUE
          IN (rows \ {existing_file}) \cup
             {[existing_file EXCEPT !.content_hash = content_hash,
                                    !.processed_at = now,
                                    !.is_processed = TRUE]}
     ELSE rows \cup {[file_path |-> file_path,
                      folder_id |-> folder_id,
                      content_hash |-> content_hash,
                      processed_at |-> now,
                      is_processed |-> TRUE]}

\* the existing row looked up by content hash instead of by file path
Upsert_by_hash(rows, file_path, folder_id, content_hash, now) ==
  LET existing == {r \in rows : r.content_hash = content_hash}
  IN IF existing # {}
     THEN LET existing_file == CHOOSE r \in existing : TRUE
          IN (rows \ {existing_file}) \cup
             {[existing_file EXCEPT !.content_hash = content_hash,
                                    !.folder_id = folder_id,
                                    !.processed_at = now,
                                    !.is_processed = TRUE]}
     ELSE rows \cup {[file_path |-> file_path,
                      folder_id |-> folder_id,
                      content_hash |-> content_hash,
                      processed_at |-> now,
                      is_processed |-> TRUE]}

\* the table after mark_file_processed with a known content hash
Upsert(rows, file_path, folder_id, content_hash, now) ==
  LET existing == RowsByPath(rows, file_path)
  IN IF existing # {}
     THEN LET existing_file == CHOOSE r \in existing : TRUE
          IN (rows \ {existing_file}) \cup
             {[existing_file EXCEPT !.content_hash = content_hash,
                                    !.folder_id = folder_id,
                                    !.processed_at = now,
                                    !.is_processed = TRUE]}
     ELSE rows \cup {[file_path |-> file_path,
                      folder_id |-> folder_id,
                      content_hash |-> content_hash,
                      processed_at |-> now,
                      is_processed |-> TRUE]}

mark_file_processed(file_path, folder_id, content_hash) ==
  /\ UNCHANGED <<fs, ingestVars, get_order, folderVars, concVars, searchVars, clock>>
  /\ IF content_hash = None /\ fs[file_path] = NoFile
     THEN /\ db_ret' = [NoDbRet EXCEPT !.op = "mark_file_processed",
                                       !.file_path = file_path,
                                       !.folder_id = folder_id,
                                       !.outcome = "FileNotFoundError"]
          /\ UNCHANGED <<processed_files, written, ever_hashes>>
     ELSE LET h == IF content_hash = None THEN Sha256(fs[file_path])
                   ELSE content_hash
          IN /\ processed_files' = Upsert(processed_files, file_path, folder_id,
                                          h, clock)
             /\ written' = [written EXCEPT ![file_path] = h]
             /\ ever_hashes' = ever_hashes \cup {h}
             /\ db_ret' = [NoDbRet EXCEPT !.op = "mark_file_processed",
                                          !.file_path = file_path,
                                          !.folder_id = folder_id,
                                          !.content_hash = content_hash,
                                          !.outcome = "ok",
                                          !.existed =
                                            RowsByPath(processed_files,
                                                       file_path) # {},
                                          !.repeat =
                                            /\ db_ret.op = "mark_file_processed"
                                            /\ db_ret.outcome = "ok"
                                            /\ db_ret.file_path = file_path
                                            /\ db_ret.folder_id = folder_id
                                            /\ written[file_path] = h
                                            /\ \A r \in RowsByPath(processed_files,
                                                                   file_path) :
                                                 r.processed_at = clock]

\* folder_id None or empty: no filter
get_processed_files_result(rows, folder_id) ==
  IF folder_id = None \/ folder_id = ""
  THEN rows
  ELSE {r \in rows : r.folder_id = folder_id}

get_processed_files(folder_id) ==
  /\ db_ret' = [NoDbRet EXCEPT !.op = "get_processed_files",
                               !.folder_id = folder_id,
                               !.outcome = "ok",
                               !.result = get_processed_files_result(processed_files,
                                                                     folder_id)]
  /\ UNCHANGED <<fs, ingestVars, get_order, folderVars, concVars, searchVars, processed_files, clock,
                 written, ever_hashes>>

Tick ==
  /\ clock < MaxClock
  /\ clock' = clock + 1
  /\ UNCHANGED <<fs, ingestVars, get_order, folderVars, concVars, searchVars, processed_files, db_ret,
                 written, ever_hashes>>

\* ------------------------------------------------------- GoogleDriveLoader
\* bound on the runs of process_folder
MaxRuns == 2

\* the order in which the Drive API lists the files of the folder
ListingOrder == <<PathA, PathB, PathT>>

\* files(id, name) of the folder
list_pdfs_in_folder(folder) ==
  SelectSeq(ListingOrder, LAMBDA p : folder[p] # NoFile)

\* how download_file ends: the file written, an exception before the file is
\* opened, or an exception with the file already on disk
Downloads == {"ok", "raise", "partial"}

\* the outcomes of process_pdf that are exceptions
Errors == {"FileNotFoundError", "ValueError", "EmbedError", "LedgerError"}

NoDrive == [p \in Paths |-> NoFile]

NoRun == [stage |-> "idle", pc |-> "none", run |-> 0, idx |-> 0,
          listing |-> <<>>, failing |-> FALSE, attempted |-> <<>>,
          outcomes |-> <<>>,
          before |-> [returned |-> FALSE, emb |-> <<>>, meta |-> <<>>]]

\* the downloaded file left in place when the body raised
Cleanup_on_success(fsys, output_path, failing) ==
  IF failing THEN fsys ELSE [fsys EXCEPT ![output_path] = NoFile]

\* lines 71-74, the finally of the loop body: runs whether or not the body
\* raised, and removes the file if it exists
Cleanup(fsys, output_path, failing) ==
  IF fsys[output_path] # NoFile
  THEN [fsys EXCEPT ![output_path] = NoFile]
  ELSE fsys

\* lines 57-61: the listing is taken once, before the loop
pf_start ==
  /\ pf.stage \in {"idle", "returned", "raised"}
  /\ pf.run < MaxRuns
  /\ pf' = [pf EXCEPT !.stage = "running", !.pc = "download",
                      !.run = @ + 1, !.idx = 1,
                      !.listing = list_pdfs_in_folder(drive),
                      !.failing = FALSE, !.attempted = <<>>,
                      !.outcomes = <<>>,
                      !.before = [returned |-> pf.stage = "returned",
                                  emb |-> pdf_embeddings,
                                  meta |-> pdf_metadata]]
  /\ UNCHANGED <<fs, ingestVars, get_order, drive, searchVars, ledgerVars,
                 concVars>>

\* line 68: download_file(pdf['id'], output_path)
pf_download(dl) ==
  /\ pf.stage = "running" /\ pf.pc = "download"
  /\ pf.idx <= Len(pf.listing)
  /\ LET output_path == pf.listing[pf.idx]
     IN /\ fs' = IF dl = "raise" THEN fs
                 ELSE [fs EXCEPT ![output_path] = drive[output_path]]
        /\ pf' = [pf EXCEPT !.pc = IF dl = "ok" THEN "process" ELSE "cleanup",
                            !.failing = (dl # "ok"),
                            !.attempted = Append(@, output_path)]
  /\ UNCHANGED <<ingestVars, get_order, drive, searchVars, ledgerVars,
                 concVars>>

\* line 70: file_processor(local_path), with process_pdf as the processor
pf_process(fail) ==
  /\ pf.stage = "running" /\ pf.pc = "process"
  /\ ProcessPdf(pf.listing[pf.idx], fail)
  /\ pf' = [pf EXCEPT !.pc = "cleanup",
                      !.outcomes = Append(@, last'.outcome),
                      !.failing = (last'.outcome \in Errors)]
  /\ UNCHANGED <<fs, get_order, drive, searchVars, ledgerVars, concVars>>

\* lines 71-74: the finally of the loop body; an exception of the body then
\* leaves the loop and process_folder
pf_cleanup ==
  /\ pf.stage = "running" /\ pf.pc = "cleanup"
  /\ fs' = Cleanup(fs, pf.listing[pf.idx], pf.failing)
  /\ pf' = IF pf.failing
           THEN [pf EXCEPT !.stage = "raised", !.pc = "none"]
           ELSE [pf EXCEPT !.idx = @ + 1, !.pc = "download"]
  /\ UNCHANGED <<ingestVars, get_order, drive, searchVars, ledgerVars,
                 concVars>>

\* the loop is exhausted and process_folder returns
pf_finish ==
  /\ pf.stage = "running" /\ pf.pc = "download"
  /\ pf.idx > Len(pf.listing)
  /\ pf' = [pf EXCEPT !.stage = "returned", !.pc = "none"]
  /\ UNCHANGED <<fs, ingestVars, get_order, drive, searchVars, ledgerVars,
                 concVars>>

\* ------------------------------------------------- concurrent process_pdf
\* bound on the rounds of concurrent calls
MaxEpisodes == 2

\* _get_file_metadata of a file with these bytes
MetadataOf(file_path, b) ==
  [file_path |-> file_path,
   file_name |-> basename(file_path),
   content_hash |-> Sha256(b)]

NoJob == [pc |-> "idle", bytes |-> NoFile, existing_id |-> None,
          outcome |-> None]

NoBase == [emb |-> <<>>, meta |-> <<>>]

\* one process_pdf call on a file with these bytes, run from start to end on
\* the collections st with no other call in between
SeqCall(st, file_path, b) ==
  IF b = NoFile THEN st
  ELSE LET metadata == MetadataOf(file_path, b)
           d == Decide(st.meta, metadata)
       IN IF d.action = "Skipped" THEN st
          ELSE Mutate(IF d.action = "Replaced"
                      THEN _delete_old_embeddings(st.emb, st.meta, d.existing_id)
                      ELSE st.emb,
                      st.meta, metadata, b, "none")

\* lines 110-139: the checks, the hash, the lookup and the decision
c_begin(p) ==
  /\ job[p].pc = "idle"
  /\ episode < MaxEpisodes
  /\ IF fs[p] = NoFile
     THEN job' = [job EXCEPT ![p] = [NoJob EXCEPT !.pc = "done",
                                       !.outcome = "FileNotFoundError"]]
     ELSE LET d == Decide(pdf_metadata, MetadataOf(p, fs[p]))
          IN job' = [job EXCEPT ![p] =
                       [pc |-> IF d.action = "Skipped" THEN "done"
                               ELSE IF d.action = "Replaced" THEN "delete"
                               ELSE "embed",
                        bytes |-> fs[p],
                        existing_id |-> d.existing_id,
                        outcome |-> d.action]]
  /\ UNCHANGED <<fs, ingestVars, get_order, folderVars, searchVars,
                 ledgerVars, base, episode>>

\* line 137: _delete_old_embeddings(existing_id)
c_delete(p) ==
  /\ job[p].pc = "delete"
  /\ pdf_embeddings' = _delete_old_embeddings(pdf_embeddings, pdf_metadata,
                                              job[p].existing_id)
  /\ job' = [job EXCEPT ![p].pc = "embed"]
  /\ UNCHANGED <<fs, pdf_metadata, calls, last, prev, ingested, faulted,
                 get_order, folderVars, searchVars, ledgerVars, base, episode>>

\* lines 141-155: load the file, embed and store its chunks
c_embed(p) ==
  /\ job[p].pc = "embed"
  /\ pdf_embeddings' = StoreNodes(pdf_embeddings,
                                  MetadataOf(p, job[p].bytes), job[p].bytes)
  /\ job' = [job EXCEPT ![p].pc = "ledger"]
  /\ UNCHANGED <<fs, pdf_metadata, calls, last, prev, ingested, faulted,
                 get_order, folderVars, searchVars, ledgerVars, base, episode>>

\* line 158: _store_metadata(metadata)
c_ledger(p) ==
  /\ job[p].pc = "ledger"
  /\ pdf_metadata' = _store_metadata(pdf_metadata, MetadataOf(p, job[p].bytes))
  /\ job' = [job EXCEPT ![p].pc = "done"]
  /\ UNCHANGED <<fs, pdf_embeddings, calls, last, prev, ingested, faulted,
                 get_order, folderVars, searchVars, ledgerVars, base, episode>>

\* the paths whose call of this round has returned
Ran == {p \in PdfPaths : job[p].pc = "done"}

Quiescent == \A p \in PdfPaths : job[p].pc \in {"idle", "done"}

\* every call of the round has returned; the next round starts from here
c_round ==
  /\ Quiescent /\ Ran # {}
  /\ job' = [p \in PdfPaths |-> NoJob]
  /\ base' = [emb |-> pdf_embeddings, meta |-> pdf_metadata]
  /\ episode' = episode + 1
  /\ UNCHANGED <<fs, ingestVars, get_order, folderVars, searchVars,
                 ledgerVars>>

\* a file changes while no call on it is running or has run in the round
c_write(p, b) ==
  /\ job[p].pc = "idle"
  /\ episode < MaxEpisodes
  /\ WriteFile(p, b)

\* ---------------------------------------------------------- specifications
Init ==
  /\ fs = [p \in Paths |-> NoFile]
  /\ pdf_embeddings = <<>>
  /\ pdf_metadata = <<>>
  /\ calls = 0
  /\ last = NoCall
  /\ prev = NoCall
  /\ ingested = [p \in Paths |-> None]
  /\ get_order \in GetOrders
  /\ faulted = FALSE
  /\ embeddings = <<>>
  /\ resp = NoResp
  /\ processed_files = {}
  /\ clock = 0
  /\ db_ret = NoDbRet
  /\ written = [p \in Paths |-> None]
  /\ ever_hashes = {}
  /\ drive = NoDrive
  /\ pf = NoRun
  /\ job = [p \in PdfPaths |-> NoJob]
  /\ base = NoBase
  /\ episode = 0

\* ingestion: process_pdf calls with the files changing in between
Next ==
  \/ \E p \in Paths, fail \in Fails : process_pdf(p, fail)
  \/ \E p \in Paths, b \in Bytes : WriteFile(p, b)
  \/ \E p \in Paths : RemoveFile(p)

Spec == Init /\ [][Next]_vars

\* retrieval: searches over any preloaded "embeddings" collection and over
\* what process_pdf has stored
SearchInit ==
  /\ fs \in {f \in [Paths -> Bytes \cup {NoFile}] : f[PathT] = NoFile}
  /\ pdf_embeddings = <<>>
  /\ pdf_metadata = <<>>
  /\ calls = 0
  /\ last = NoCall
  /\ prev = NoCall
  /\ ingested = [p \in Paths |-> None]
  /\ get_order = "insertion"
  /\ faulted = FALSE
  /\ embeddings \in {SubSeq(ExtSeed, 1, n) : n \in 0 .. MaxExt}
  /\ resp = NoResp
  /\ processed_files = {}
  /\ clock = 0
  /\ db_ret = NoDbRet
  /\ written = [p \in Paths |-> None]
  /\ ever_hashes = {}
  /\ drive = NoDrive
  /\ pf = NoRun
  /\ job = [p \in PdfPaths |-> NoJob]
  /\ base = NoBase
  /\ episode = 0

SearchNext ==
  \/ \E p \in Paths : process_pdf(p, "none")
  \/ \E q \in Queries, k \in TopKs, fail \in BOOLEAN : internal_search(q, k, fail)
  \/ \E q \in Queries, k \in TopKs, fail \in BOOLEAN : search_documents(q, k, fail)
  \/ \E q \in Queries, k \in TopKs, fail \in BOOLEAN : get_similar_chunks(q, k, fail)

SpecSearch == SearchInit /\ [][SearchNext]_vars

\* the processed_files table
LedgerNext ==
  \/ \E p \in LedgerPaths, f \in Folders, h \in Hashes \cup {None} :
       mark_file_processed(p, f, h)
  \/ \E h \in Hashes : is_file_processed(h)
  \/ \E f \in Folders \cup {None} : get_processed_files(f)
  \/ \E p \in LedgerPaths, b \in Bytes : WriteFile(p, b)
  \/ Tick

LedgerInit == Init /\ get_order = "insertion"

SpecLedger == LedgerInit /\ [][LedgerNext]_vars

\* the folder loop: process_folder run over a folder that does not change
FolderInit ==
  /\ fs = [p \in Paths |-> NoFile]
  /\ pdf_embeddings = <<>>
  /\ pdf_metadata = <<>>
  /\ calls = 0
  /\ last = NoCall
  /\ prev = NoCall
  /\ ingested = [p \in Paths |-> None]
  /\ get_order \in GetOrders
  /\ faulted = FALSE
  /\ embeddings = <<>>
  /\ resp = NoResp
  /\ processed_files = {}
  /\ clock = 0
  /\ db_ret = NoDbRet
  /\ written = [p \in Paths |-> None]
  /\ ever_hashes = {}
  /\ drive \in [Paths -> Bytes \cup {NoFile}]
  /\ pf = NoRun
  /\ job = [p \in PdfPaths |-> NoJob]
  /\ base = NoBase
  /\ episode = 0

FolderNext ==
  \/ pf_start
  \/ \E dl \in Downloads : pf_download(dl)
  \/ \E fail \in Fails : pf_process(fail)
  \/ pf_cleanup
  \/ pf_finish

SpecFolder == FolderInit /\ [][FolderNext]_vars

\* concurrent ingestion: one process_pdf call at a time per path, the calls
\* of different paths interleaved between their collection operations
ConcInit == Init /\ get_order = "insertion"

ConcNext ==
  \/ \E p \in PdfPaths : c_begin(p)
  \/ \E p \in PdfPaths : c_delete(p)
  \/ \E p \in PdfPaths : c_embed(p)
  \/ \E p \in PdfPaths : c_ledger(p)
  \/ c_round
  \/ \E p \in PdfPaths, b \in Bytes : c_write(p, b)

SpecConc == ConcInit /\ [][ConcNext]_vars

\* ------------------------------------------------------------------ claims
\* a process_pdf call on a PDF during which no collaborator failed
Reconciled(call) ==
  call.op = "process_pdf" /\ call.hash # None /\ call.fail = "none"

\* the content hash of the record a lookup of the path returns
LookedUpHash(file_path) ==
  LET id == _check_duplicate(pdf_metadata, [file_path |-> file_path])
  IN IF id = None THEN None ELSE CollectionGetId(pdf_metadata, id)[1].content_hash

\* C1: with no metadata record for the path or the hash and no chunk of the
\* hash beforehand, two consecutive process_pdf calls on the same path with the
\* same bytes are Inserted then Skipped, and the chunks tagged with the hash
\* are exactly one copy of the file's chunks.
C1_InsertedThenSkipped ==
  (/\ Reconciled(prev) /\ Reconciled(last)
   /\ prev.fresh
   /\ prev.path = last.path
   /\ prev.bytes = last.bytes)
  => /\ prev.outcome = "Inserted"
     /\ last.outcome = "Skipped"
     /\ ChunksTagged(pdf_embeddings, Sha256(last.bytes)) = Len(load_data(last.bytes))
     /\ \A i \in 1 .. Len(pdf_embeddings) :
          pdf_embeddings[i].content_hash = Sha256(last.bytes)
            => pdf_embeddings[i].file_path = last.path

C1_Witness ==
  /\ Reconciled(prev) /\ Reconciled(last)
  /\ prev.fresh
  /\ prev.path = last.path
  /\ prev.bytes = "bytesB" /\ last.bytes = "bytesB"
  /\ prev.outcome = "Inserted"
  /\ last.outcome = "Skipped"
  /\ ChunksTagged(pdf_embeddings, "hB") = 2

\* C2: process_pdf on a path with bytesA and then with bytesB of another hash:
\* the second call is Replaced, no chunk is tagged with A's hash, some chunk is
\* tagged with B's hash, and the metadata record looked up for the path carries
\* B's hash.
C2_ReplacedPostcondition ==
  (/\ Reconciled(prev) /\ Reconciled(last)
   /\ prev.path = last.path
   /\ prev.hash # last.hash)
  => /\ last.outcome = "Replaced"
     /\ ChunksTagged(pdf_embeddings, prev.hash) = 0
     /\ ChunksTagged(pdf_embeddings, last.hash) > 0
     /\ LookedUpHash(last.path) = last.hash

\* C3: the metadata collection holds at most one record per file path.
C3_OneRecordPerIdentity ==
  \A p \in Paths : Len(CollectionGetWhere(pdf_metadata, "file_path", p)) <= 1

\* C4: a process_pdf call whose bytes hash to the fingerprint of the path's
\* latest completed ingestion is Skipped and changes neither the chunks nor
\* the ledger.
C4_UnchangedIsSkipped ==
  [][(/\ calls' = calls + 1
      /\ Reconciled(last')
      /\ ingested[last'.path] = last'.hash)
     => /\ last'.outcome = "Skipped"
        /\ pdf_embeddings' = pdf_embeddings
        /\ pdf_metadata' = pdf_metadata
        /\ processed_files' = processed_files]_vars

\* C5: a process_pdf call for a path without a metadata record, whose content
\* hash is carried by the record of another path, is Skipped and adds neither
\* chunks nor a record.
C5_GlobalDuplicateSkipped ==
  [][(/\ calls' = calls + 1
      /\ Reconciled(last')
      /\ CollectionGetWhere(pdf_metadata, "file_path", last'.path) = <<>>
      /\ CollectionGetWhere(pdf_metadata, "content_hash", last'.hash) # <<>>)
     => /\ last'.outcome = "Skipped"
        /\ pdf_embeddings' = pdf_embeddings
        /\ pdf_metadata' = pdf_metadata
        /\ processed_files' = processed_files]_vars

\* C6: process_pdf on a missing path raises FileNotFoundError, on an existing
\* path that is not a PDF raises ValueError, and in both cases leaves the
\* chunks and the ledger as they were.
C6_RejectedBeforeMutation ==
  [][calls' = calls + 1
     => /\ fs[last'.path] = NoFile
           => /\ last'.outcome = "FileNotFoundError"
              /\ pdf_embeddings' = pdf_embeddings
              /\ pdf_metadata' = pdf_metadata
              /\ processed_files' = processed_files
        /\ (fs[last'.path] # NoFile /\ last'.path \notin PdfPaths)
           => /\ last'.outcome = "ValueError"
              /\ pdf_embeddings' = pdf_embeddings
              /\ pdf_metadata' = pdf_metadata
              /\ processed_files' = processed_files]_vars

C6_Witness ==
  /\ prev.outcome = "FileNotFoundError"
  /\ last.outcome = "ValueError"
  /\ pdf_embeddings # <<>>
  /\ pdf_metadata # <<>>

\* C7: is_file_processed(h) is true exactly when some path's latest
\* mark_file_processed stored h.
C7_LookupIffCarried ==
  db_ret.op = "is_file_processed"
  => (db_ret.result <=> \E p \in Paths : written[p] = db_ret.content_hash)

C7_Witness ==
  /\ db_ret.op = "is_file_processed"
  /\ db_ret.content_hash \in ever_hashes
  /\ ~db_ret.result
  /\ processed_files # {}

\* C8: after mark_file_processed(file_path, folder_id, content_hash) a read of
\* the table has exactly one row for file_path, with the folder_id and the
\* content hash written, and the rows of the other paths are as before.
C8_UpsertRoundTrip ==
  [][(/\ db_ret'.op = "mark_file_processed"
      /\ db_ret'.outcome = "ok"
      /\ fs' = fs
      /\ clock' = clock)
     => LET p == db_ret'.file_path
            h == IF db_ret'.content_hash = None THEN Sha256(fs[p])
                 ELSE db_ret'.content_hash
            read == {r \in get_processed_files_result(processed_files', None) :
                       r.file_path = p}
        IN /\ Cardinality(read) = 1
           /\ \A r \in read : r.folder_id = db_ret'.folder_id /\ r.content_hash = h
           /\ read \subseteq get_processed_files_result(processed_files',
                                                        db_ret'.folder_id)
           /\ {r \in processed_files' : r.file_path # p}
                = {r \in processed_files : r.file_path # p}]_vars

C8_Witness ==
  /\ db_ret.op = "mark_file_processed"
  /\ db_ret.outcome = "ok"
  /\ db_ret.existed
  /\ Cardinality(processed_files) = 2

\* C9: a search with a positive top_k returns at most top_k results,
\* whichever entry point it goes through.
C9_AtMostTopK ==
  (resp.op # "none" /\ resp.top_k > 0) => Len(resp.results) <= resp.top_k

\* C10: a search with top_k <= 0 is rejected as an invalid argument before
\* any similarity search is issued, and returns no results.
C10_NonPositiveRejected ==
  (resp.op # "none" /\ resp.top_k <= 0)
  => /\ resp.status = "InvalidArgument"
     /\ ~resp.issued
     /\ resp.results = <<>>

\* C11: a search during which the vector store fails answers with an error
\* (HTTP 500, an error value, or the exception itself), never with a
\* successful response.
C11_FailureIsReported ==
  (resp.op # "none" /\ resp.failed)
  => /\ resp.status \in {"HTTP500", "error", "raised"}
     /\ resp.status \notin {"HTTP200", "ok"}

C11_Witness ==
  /\ resp.op = "internal_search"
  /\ resp.failed
  /\ resp.top_k > 0
  /\ resp.status = "HTTP500"
  /\ embeddings # <<>>

\* the number of chunks of a file path tagged with a content hash
ChunkCount(emb_coll, file_path, h) ==
  Cardinality({i \in 1 .. Len(emb_coll) :
                 emb_coll[i].file_path = file_path /\ emb_coll[i].content_hash = h})

\* no other path has a metadata record or a chunk
OnlyIdentity(file_path) ==
  /\ \A i \in 1 .. Len(pdf_metadata) : pdf_metadata[i].file_path = file_path
  /\ \A i \in 1 .. Len(pdf_embeddings) : pdf_embeddings[i].file_path = file_path

\* C12: after process_pdf calls on one path only, none of which failed, the
\* chunks stored are exactly one copy of the chunks of the bytes reconciled
\* last, all tagged with their hash.
C12_ChunksAreCurrentVersion ==
  (Reconciled(last) /\ ~faulted /\ OnlyIdentity(last.path))
  => /\ \A i \in 1 .. Len(pdf_embeddings) :
          pdf_embeddings[i].content_hash = last.hash
     /\ Len(pdf_embeddings) = Len(load_data(last.bytes))

\* C13: a Replaced call on path X with old hash fA removes no chunk tagged
\* with another hash and no chunk of another path.
C13_ReplaceDeletesOnlyOwnChunks ==
  [][(/\ calls' = calls + 1
      /\ Reconciled(last')
      /\ last'.outcome = "Replaced")
     => \A q \in PdfPaths, h \in Hashes :
          (q # last'.path \/ h # last'.old)
          => ChunkCount(pdf_embeddings', q, h) >= ChunkCount(pdf_embeddings, q, h)]_vars

C15_RetryWritesOnce ==
  (/\ prev.outcome \in {"EmbedError", "LedgerError"}
   /\ Reconciled(last)
   /\ last.path = prev.path
   /\ last.bytes = prev.bytes)
  => ChunksTagged(pdf_embeddings, last.hash) = Len(load_data(last.bytes))

\* C17: a search through the search API that asks for at least as many
\* results as there are chunks returns every chunk process_pdf has stored,
\* and changes neither the collections nor the ledger.
C17_SearchSeesIngestion ==
  [][(/\ resp'.op = "internal_search"
      /\ resp'.status = "HTTP200"
      /\ calls' = calls
      /\ resp'.top_k >= Len(pdf_embeddings) + Len(embeddings))
     => /\ \A i \in 1 .. Len(pdf_embeddings) :
             \E j \in 1 .. Len(resp'.results) :
               /\ resp'.results[j].file_name = pdf_embeddings[i].file_name
               /\ resp'.results[j].text = NFKC(pdf_embeddings[i].text)
        /\ UNCHANGED <<pdf_embeddings, pdf_metadata, embeddings,
                       processed_files>>]_vars

\* C18: mark_file_processed repeated with the same arguments at the same
\* time leaves the table as the first call left it, with one row for the
\* path.
C18_UpsertIdempotent ==
  [][(/\ db_ret'.op = "mark_file_processed"
      /\ db_ret'.outcome = "ok"
      /\ fs' = fs
      /\ clock' = clock)
     => LET p == db_ret'.file_path
            h == written'[p]
            again == Upsert(processed_files', p, db_ret'.folder_id, h, clock)
        IN /\ again = processed_files'
           /\ Cardinality(RowsByPath(again, p)) = 1
           /\ db_ret'.repeat
              => /\ processed_files' = processed_files
                 /\ Cardinality(RowsByPath(processed_files', p)) = 1]_vars

C18_Witness ==
  /\ db_ret.op = "mark_file_processed"
  /\ db_ret.outcome = "ok"
  /\ db_ret.repeat
  /\ Cardinality(processed_files) = 2

\* the orders in which the calls of a set of paths can run one after another
Orders(S) ==
  {o \in [1 .. Cardinality(S) -> S] :
     \A i, j \in 1 .. Cardinality(S) : o[i] = o[j] => i = j}

\* the collections after the calls of the round run one after another
RECURSIVE SeqRun(_, _)
SeqRun(st, o) ==
  IF o = <<>> THEN st
  ELSE SeqRun(SeqCall(st, Head(o), job[Head(o)].bytes), Tail(o))

\* the same chunks per path and hash, and the same metadata records
SameStores(a, b) ==
  /\ \A p \in PdfPaths, h \in Hashes :
       ChunkCount(a.emb, p, h) = ChunkCount(b.emb, p, h)
  /\ Len(a.meta) = Len(b.meta)
  /\ {a.meta[i] : i \in 1 .. Len(a.meta)} = {b.meta[i] : i \in 1 .. Len(b.meta)}

\* C16: with at most one process_pdf call running per path and the calls of
\* different paths interleaved, once the calls of a round have returned the
\* chunk store and the metadata collection are those that running the same
\* calls one after another, in some order, produces.
C16_ConcurrentIsSequential ==
  (Quiescent /\ Ran # {})
  => \E o \in Orders(Ran) :
       SameStores([emb |-> pdf_embeddings, meta |-> pdf_metadata],
                  SeqRun(base, o))

\* C19: a run of process_folder that returns, right after a run that
\* returned over the same folder, has every file Skipped and leaves the chunk
\* store and the metadata collection as the earlier run left them.
C19_SecondRunIsNoOp ==
  (pf.stage = "returned" /\ pf.run >= 2 /\ pf.before.returned)
  => /\ \A i \in 1 .. Len(pf.outcomes) : pf.outcomes[i] = "Skipped"
     /\ pdf_embeddings = pf.before.emb
     /\ pdf_metadata = pf.before.meta

\* C20: in process_folder a downloaded file is on disk only between its
\* download and the finally of its loop body; when process_folder has
\* returned or raised no file is left, a failure of a download or of the
\* processor ends the run as an exception with no later file of the listing
\* downloaded or processed, and a run that returns has processed every file
\* of the listing without an exception.
C20_DownloadsRemoved ==
  /\ \A p \in Paths :
       fs[p] # NoFile => /\ pf.stage = "running"
                         /\ pf.pc \in {"process", "cleanup"}
                         /\ p = pf.listing[pf.idx]
  /\ pf.stage = "raised"
       => /\ pf.failing
          /\ pf.attempted = SubSeq(pf.listing, 1, pf.idx)
          /\ Len(pf.outcomes) <= pf.idx
          /\ \A i \in 1 .. Len(pf.outcomes) :
               pf.outcomes[i] \in Errors <=> i = pf.idx
  /\ pf.stage = "returned"
       => /\ pf.attempted = pf.listing
          /\ Len(pf.outcomes) = Len(pf.listing)
          /\ \A i \in 1 .. Len(pf.outcomes) : pf.outcomes[i] \notin Errors

C20_Witness ==
  /\ pf.stage = "raised"
  /\ Len(pf.listing) >= 2
  /\ pf.idx = 1
  /\ pf.outcomes = <<"EmbedError">>
  /\ pf.attempted = <<pf.listing[1]>>
  /\ \A p \in Paths : fs[p] = NoFile


====
